---- MODULE Spec2Model ----
(***************************************************************************)
(* The execution gate of the ECL reference runtime (POST /v1/execute):     *)
(* parse, schema validation, context integrity check, profile load,        *)
(* allowlist / controls / constraints enforcement, decision assembly,      *)
(* audit append and reply, with the fail-closed exception handler.         *)
(*                                                                         *)
(* Bytes and digests are sequences of tokens: canonical_json_bytes writes  *)
(* the tokens of the canonical text, sha256_prefixed prepends "sha256:"    *)
(* to the bytes it digests (an ideal, collision-free hash).                *)
(***************************************************************************)
EXTENDS Integers, Sequences, FiniteSets, TLC

VARIABLES now, reqs, audit, lock, made

vars == <<now, reqs, audit, lock, made>>

(***************************************************************************)
(* Bounds of the model.                                                    *)
(***************************************************************************)
NumReqs == 2

(***************************************************************************)
(* models.py: enumerations.                                                *)
(***************************************************************************)
ReasonCode ==
  { "OK", "REQUEST_PARSE_ERROR", "REQUEST_SCHEMA_INVALID", "CTX_HASH_MISMATCH",
    "PROFILE_NOT_FOUND", "PROFILE_PARSE_ERROR", "INVALID_PROFILE_DEFAULT",
    "TOOL_NOT_ALLOWED", "CONTROL_REQUIRED", "CONSTRAINT_VIOLATION",
    "CONSTRAINT_EVAL_ERROR", "AUDIT_WRITE_FAILED", "INTERNAL_ERROR" }

DecisionType == { "ALLOW", "DENY", "ESCALATE" }

(***************************************************************************)
(* Optional values (Python None).                                          *)
(***************************************************************************)
Some(v) == [some |-> TRUE, v |-> v]
NoStr == [some |-> FALSE, v |-> ""]
NoInt == [some |-> FALSE, v |-> 0]
NoEnum == [some |-> FALSE, v |-> {}]

(***************************************************************************)
(* JSON values of tool.args: t is the JSON type, s the text of a string,   *)
(* n the number (1 / 0 for true / false, as Python's bool is an int).      *)
(***************************************************************************)
JStr(s) == [t |-> "str", s |-> s, n |-> 0]
JNum(n) == [t |-> "num", s |-> "", n |-> n]
JBool(b) == [t |-> "bool", s |-> "", n |-> IF b THEN 1 ELSE 0]
JNull == [t |-> "null", s |-> "", n |-> 0]
\* The floats json.loads makes of the literals NaN and Infinity.
JNaN == [t |-> "nan", s |-> "", n |-> 0]
JInf == [t |-> "inf", s |-> "", n |-> 0]

K_to == <<"to">>
K_subject == <<"subject">>
K_amount == <<"amount">>
K_confirm == <<"confirm">>
\* The key "meta.to" (what "$.meta.to"[2:] is) and the empty key.
K_meta_to == <<"meta", "to">>
K_empty == << >>

\* The keys the model's payloads use, in lexicographic order (sort_keys=True).
KeyOrder == << K_empty, K_amount, K_confirm, K_meta_to, K_subject, K_to >>

(***************************************************************************)
(* hashing.py                                                              *)
(***************************************************************************)
ValueTokens(v) ==
  CASE v.t = "str" -> << "s", v.s >>
    [] v.t = "num" -> << "n", ToString(v.n) >>
    [] v.t = "bool" -> << IF v.n = 1 THEN "true" ELSE "false" >>
    [] v.t = "nan" -> << "NaN" >>
    [] v.t = "inf" -> << "Infinity" >>
    [] OTHER -> << "null" >>

RECURSIVE MembersFrom(_, _)
MembersFrom(f, i) ==
  IF i > Len(KeyOrder) THEN << >>
  ELSE (IF KeyOrder[i] \in DOMAIN f
          THEN KeyOrder[i] \o << ":" >> \o ValueTokens(f[KeyOrder[i]]) \o << "," >>
          ELSE << >>)
       \o MembersFrom(f, i + 1)

\* The members of an object in the order its keys have in the body (the
\* order json.loads keeps in the dict).
RECURSIVE WireMembersFrom(_, _)
WireMembersFrom(a, i) ==
  IF i > Len(a.ord) THEN << >>
  ELSE a.ord[i] \o << ":" >> \o ValueTokens(a.f[a.ord[i]]) \o << "," >>
       \o WireMembersFrom(a, i + 1)

\* json.dumps without sort_keys: the members in the order of the dict.
WireArgsTokens(a) ==
  IF a.obj THEN << "{" >> \o WireMembersFrom(a, 1) \o << "}" >>
  ELSE << "[", "]" >>

\* canonical_json_bytes without sort_keys.
ArgsTokens_unsorted(a) == WireArgsTokens(a)

\* json.dumps(args, sort_keys=True, separators=(",", ":"), ensure_ascii=False)
ArgsTokens(a) ==
  IF a.obj THEN << "{" >> \o MembersFrom(a.f, 1) \o << "}" >>
  ELSE << "[", "]" >>

\* json.dumps(...).encode("utf-8") raises UnicodeEncodeError on a lone
\* surrogate, which json.loads accepts in a string ("\ud800").
Encodable(a) == a.enc

sha256_prefixed(data) == << "sha256:" >> \o data

\* hash_json of a JSON value / of the empty object.
hash_json(a) == sha256_prefixed(ArgsTokens(a))
hash_json_empty == sha256_prefixed(<< "{", "}" >>)

(***************************************************************************)
(* Profiles.  A rule's path is the sequence of its segments: "$.to" is     *)
(* << "$.", "to" >>, "$.a.b" is << "$.", "a.b" >>, "to" is << "to" >>.     *)
(***************************************************************************)
ArgRule(path, type, pattern, max_len, enum, min, max) ==
  [path |-> path, type |-> type, pattern |-> pattern, max_len |-> max_len,
   enum |-> enum, min |-> min, max |-> max]

ToolPermit(name, approval_token, constrained, arg_rules) ==
  [name |-> name, required_controls |-> [approval_token |-> approval_token],
   constraints |-> [some |-> constrained, arg_rules |-> arg_rules]]

P_EXAMPLE_COM == "^[^@]+@example\\.com$"

\* re.match(pattern, v) is not None, for the patterns and strings of the model.
re_match(pattern, v) ==
  IF pattern = P_EXAMPLE_COM THEN v \in { "bob@example.com" } ELSE FALSE

ExampleProfile ==
  [profile_id |-> "example", profile_version |-> "1.0.0", default |-> "DENY",
   allowed_tools |-> <<
     ToolPermit("email.send", FALSE, TRUE, <<
       ArgRule(<< "$.", "to" >>, "string", Some(P_EXAMPLE_COM), NoInt, NoEnum, NoInt, NoInt),
       ArgRule(<< "$.", "subject" >>, "string", NoStr, Some(4), NoEnum, NoInt, NoInt) >>),
     ToolPermit("storage.put", TRUE, FALSE, << >>),
     ToolPermit("pay.send", TRUE, TRUE, <<
       ArgRule(<< "$.", "amount" >>, "number", NoStr, NoInt, NoEnum, Some(1), Some(100)),
       ArgRule(<< "$.", "confirm" >>, "bool", NoStr, NoInt, NoEnum, NoInt, NoInt),
       ArgRule(<< "$.", "to" >>, "string", NoStr, NoInt, Some({ "alice", "bob" }), NoInt, NoInt) >>),
     ToolPermit("odd.tool", FALSE, TRUE, <<
       ArgRule(<< "$.", "to" >>, "string", NoStr, NoInt, NoEnum, NoInt, NoInt),
       ArgRule(<< "$.", "amount" >>, "integer", NoStr, NoInt, NoEnum, NoInt, NoInt),
       ArgRule(<< "$.", "confirm" >>, "bool", NoStr, NoInt, NoEnum, NoInt, NoInt) >>),
     ToolPermit("raw.tool", FALSE, TRUE, <<
       ArgRule(<< "to" >>, "string", NoStr, NoInt, NoEnum, NoInt, NoInt) >>),
     ToolPermit("deep.tool", FALSE, TRUE, <<
       ArgRule(<< "$.", "meta", "to" >>, "string", NoStr, NoInt, NoEnum, NoInt, NoInt) >>),
     ToolPermit("blank.tool", FALSE, TRUE, <<
       ArgRule(<< "$." >>, "string", NoStr, NoInt, NoEnum, NoInt, NoInt) >>) >>]

\* What the profile store holds under each profile id (version "1.0.0"):
\* a profile, or the way loading it fails.
ProfileStore ==
  [id \in { "example", "missing", "corrupt", "baddefault", "unreadable", "silent" } |->
     CASE id = "example" -> [status |-> "ok", profile |-> ExampleProfile]
       [] id = "baddefault" ->
            [status |-> "ok",
             profile |-> [ExampleProfile EXCEPT !.profile_id = "baddefault",
                                                !.default = "ALLOW"]]
       [] OTHER -> [status |-> id, profile |-> ExampleProfile]]

(***************************************************************************)
(* models.py: ExecutionRequest.  A parsed body is obj; extra tells that    *)
(* it carries a field the schema does not know.                            *)
(***************************************************************************)
NoControls == [present |-> FALSE, approval_token |-> NoStr]
Controls(token) == [present |-> TRUE, approval_token |-> token]

\* ExecutionRequest.model_validate(obj) succeeds: extra="forbid" and the
\* min_length=1 fields.
SchemaValid(obj) ==
  /\ ~obj.extra
  /\ obj.request_id /= ""
  /\ obj.tool.name /= ""
  /\ obj.profile.id /= ""
  /\ obj.profile.version /= ""
  /\ obj.context.snapshot_hash /= << >>

\* canonical_json_bytes(obj) of the parsed body, as sent.
ObjTokens(obj) ==
  << "{", "context", ":", "{", "snapshot", ":" >> \o ArgsTokens(obj.context.snapshot)
  \o << ",", "snapshot_hash", ":" >> \o obj.context.snapshot_hash \o << "}", "," >>
  \o (IF obj.controls.present
        THEN << "controls", ":", "{" >>
             \o (IF obj.controls.approval_token.some
                   THEN << "approval_token", ":", "s", obj.controls.approval_token.v >>
                   ELSE << >>)
             \o << "}", "," >>
        ELSE << >>)
  \o (IF obj.extra THEN << "extra", ":", "null", "," >> ELSE << >>)
  \o << "profile", ":", "{", "id", ":", "s", obj.profile.id, ",",
        "version", ":", "s", obj.profile.version, "}", ",",
        "request_id", ":", "s", obj.request_id, "," >>
  \o (IF obj.submitted_at.some
        THEN << "submitted_at", ":", "s", obj.submitted_at.v, "," >>
        ELSE << >>)
  \o << "tool", ":", "{", "args", ":" >> \o ArgsTokens(obj.tool.args)
  \o << ",", "name", ":", "s", obj.tool.name, "}", "}" >>

\* canonical_json_bytes(req.model_dump()): the validated request, with the
\* defaults of the optional fields filled in.
DumpTokens(req) ==
  << "{", "context", ":", "{", "snapshot", ":" >> \o ArgsTokens(req.context.snapshot)
  \o << ",", "snapshot_hash", ":" >> \o req.context.snapshot_hash
  \o << "}", ",", "controls", ":" >>
  \o (IF req.controls.present
        THEN << "{", "approval_token", ":" >>
             \o (IF req.controls.approval_token.some
                   THEN << "s", req.controls.approval_token.v >>
                   ELSE << "null" >>)
             \o << ",", "nonce", ":", "null", "}" >>
        ELSE << "null" >>)
  \o << ",", "profile", ":", "{", "id", ":", "s", req.profile.id, ",",
        "version", ":", "s", req.profile.version, "}", ",",
        "request_id", ":", "s", req.request_id, ",",
        "submitted_at", ":" >>
  \o (IF req.submitted_at.some THEN << "s", req.submitted_at.v >> ELSE << "null" >>)
  \o << ",", "tool", ":", "{", "args", ":" >> \o ArgsTokens(req.tool.args)
  \o << ",", "name", ":", "s", req.tool.name, "}", "}" >>

\* The bytes of the body as received: not in canonical form, and with the
\* keys of args and of the snapshot in the order the client wrote them.
RawBytes(body) ==
  IF body.json
    THEN << "raw" >> \o WireArgsTokens(body.obj.context.snapshot)
         \o WireArgsTokens(body.obj.tool.args) \o ObjTokens(body.obj)
    ELSE << "raw", "{not json" >>

(***************************************************************************)
(* enforce.py                                                              *)
(***************************************************************************)
RECURSIVE find_from(_, _, _)
find_from(tools, tool_name, i) ==
  IF i > Len(tools) THEN 0
  ELSE IF tools[i].name = tool_name THEN i
  ELSE find_from(tools, tool_name, i + 1)

\* The index in allowed_tools of the first permit named tool_name; 0 is None.
find_tool_permit(profile, tool_name) == find_from(profile.allowed_tools, tool_name, 1)

\* require_controls with the check skipped.
require_controls_off(req, permit) == NoStr

\* require_controls accepting any non-empty token.
require_controls_nonempty(req, permit) ==
  IF permit.required_controls.approval_token
    THEN LET token == IF req.controls.present THEN req.controls.approval_token ELSE NoStr
         IN IF ~token.some \/ token.v = "" THEN Some("CONTROL_REQUIRED") ELSE NoStr
    ELSE NoStr

\* Returns a reason code, or None.
require_controls(req, permit) ==
  IF permit.required_controls.approval_token
    THEN LET token == IF req.controls.present THEN req.controls.approval_token ELSE NoStr
         IN IF ~token.some \/ token.v = "" THEN Some("CONTROL_REQUIRED")
            ELSE IF token.v /= "APPROVED" THEN Some("CONTROL_REQUIRED")
            ELSE NoStr
    ELSE NoStr

\* _get_arg_value raises ValueError: unsupported path, or args not an object.
get_arg_raises(args, path) ==
  \/ Len(path) = 0
  \/ path[1] /= "$."
  \/ ~args.obj

\* _get_arg_value with args.get(path[2:], "").
get_arg_value_default(args, path) ==
  LET key == SubSeq(path, 2, Len(path))
  IN IF key \in DOMAIN args.f THEN args.f[key] ELSE JStr("")

\* _get_arg_value: args.get(path[2:], None).
get_arg_value(args, path) ==
  LET key == SubSeq(path, 2, Len(path))
  IN IF key \in DOMAIN args.f THEN args.f[key] ELSE JNull

\* float(v) < bound and float(v) > bound: every comparison with NaN is
\* False, and Infinity is above every bound.
float_lt(v, bound) == v.t \in { "num", "bool" } /\ v.n < bound
float_gt(v, bound) == v.t = "inf" \/ (v.t \in { "num", "bool" } /\ v.n > bound)

\* One pass of the loop body of enforce_constraints: "pass", or the reason
\* the rule returns (an exception is CONSTRAINT_EVAL_ERROR).
rule_result(args, rule) ==
  IF get_arg_raises(args, rule.path) THEN "CONSTRAINT_EVAL_ERROR"
  ELSE LET v == get_arg_value(args, rule.path)
       IN IF v.t = "null" THEN "CONSTRAINT_VIOLATION"
          ELSE IF rule.type = "string"
            THEN IF v.t /= "str" THEN "CONSTRAINT_VIOLATION"
                 ELSE IF rule.max_len.some /\ Len(v.s) > rule.max_len.v
                   THEN "CONSTRAINT_VIOLATION"
                 ELSE IF rule.enum.some /\ v.s \notin rule.enum.v
                   THEN "CONSTRAINT_VIOLATION"
                 ELSE IF rule.pattern.some /\ ~re_match(rule.pattern.v, v.s)
                   THEN "CONSTRAINT_VIOLATION"
                 ELSE "pass"
          ELSE IF rule.type = "number"
            THEN IF v.t \notin { "num", "bool", "nan", "inf" } THEN "CONSTRAINT_VIOLATION"
                 ELSE IF rule.min.some /\ float_lt(v, rule.min.v) THEN "CONSTRAINT_VIOLATION"
                 ELSE IF rule.max.some /\ float_gt(v, rule.max.v) THEN "CONSTRAINT_VIOLATION"
                 ELSE "pass"
          ELSE IF rule.type = "bool"
            THEN IF v.t /= "bool" THEN "CONSTRAINT_VIOLATION" ELSE "pass"
          ELSE "CONSTRAINT_EVAL_ERROR"

RECURSIVE rules_from(_, _, _)
rules_from(args, rules, i) ==
  IF i > Len(rules) THEN NoStr
  ELSE IF rule_result(args, rules[i]) /= "pass" THEN Some(rule_result(args, rules[i]))
  ELSE rules_from(args, rules, i + 1)

\* Returns a reason code, or None.
enforce_constraints(req, permit) ==
  IF ~permit.constraints.some \/ Len(permit.constraints.arg_rules) = 0 THEN NoStr
  ELSE rules_from(req.tool.args, permit.constraints.arg_rules, 1)

(***************************************************************************)
(* decision.py (not in the source tree): the decision assembler.           *)
(***************************************************************************)
RuntimeIdentity == [name |-> "ecl-reference-runtime", version |-> "0.1.0", build |-> "dev"]

fallback_profile_ref_hash == hash_json_empty

provenance_id_from_inputs(request_hash, profile_ref_hash, runtime_version) ==
  sha256_prefixed(<< "{", "profile_ref_hash", ":" >> \o profile_ref_hash
                  \o << ",", "request_hash", ":" >> \o request_hash
                  \o << ",", "runtime_version", ":", "s", runtime_version, "}" >>)

NoArgs == [obj |-> FALSE, enc |-> TRUE, f |-> << >>, ord |-> << >>]
NoCall == [present |-> FALSE, tool_name |-> "", tool_args |-> NoArgs]
ApprovedCall(tool_name, tool_args) ==
  [present |-> TRUE, tool_name |-> tool_name, tool_args |-> tool_args]

\* The validator without its second check.
allow_requires_approved_call_oneway(d) ==
  ~(d.decision_type = "ALLOW" /\ ~d.approved_call.present)

\* models.py: the model validator of ExecutionDecision passes.
allow_requires_approved_call(d) ==
  /\ ~(d.decision_type = "ALLOW" /\ ~d.approved_call.present)
  /\ ~(d.decision_type /= "ALLOW" /\ d.approved_call.present)

\* models.py: ExecutionDecision(**fields) validates.
ExecutionDecisionValid(d) ==
  /\ d.decision_type \in DecisionType
  /\ d.reason_code \in ReasonCode
  /\ d.request_hash /= << >>
  /\ d.provenance_id /= << >>
  /\ d.profile.id /= "" /\ d.profile.version /= "" /\ d.profile.profile_ref_hash /= << >>
  /\ (d.approved_call.present => d.approved_call.tool_name /= "")
  /\ allow_requires_approved_call(d)

Decision(decision_type, reason, request_hash, profile_id, profile_version, profile_ref_hash, runtime, approved_call) ==
  [decision_type |-> decision_type, reason_code |-> reason,
   request_hash |-> request_hash,
   provenance_id |-> provenance_id_from_inputs(request_hash, profile_ref_hash,
                                               runtime.version),
   profile |-> [id |-> profile_id, version |-> profile_version,
                profile_ref_hash |-> profile_ref_hash],
   runtime |-> runtime, approved_call |-> approved_call]

deny_decision(reason, request_hash, profile_id, profile_version, profile_ref_hash, runtime) ==
  Decision("DENY", reason, request_hash, profile_id, profile_version,
           profile_ref_hash, runtime, NoCall)

allow_decision(request_hash, profile_id, profile_version, profile_ref_hash, tool_name, tool_args, runtime) ==
  Decision("ALLOW", "OK", request_hash, profile_id, profile_version,
           profile_ref_hash, runtime, ApprovedCall(tool_name, tool_args))

(***************************************************************************)
(* profiles.py (not in the source tree): the profile loader.               *)
(***************************************************************************)
ProfileBytesHash(profile) ==
  sha256_prefixed(<< "{", "profile", profile.profile_id, profile.profile_version, "}" >>)

\* A profile validator that accepts any default.
default_must_be_deny_off(profile) == TRUE

\* models.py: ExecutionProfile._default_must_be_deny passes.
default_must_be_deny(profile) == profile.default = "DENY"

\* load_profile(id, version): the profile and its reference hash, or the
\* RuntimeError it raises (args tells whether the error has a message).
load_profile(profile_id, profile_version) ==
  LET e == IF profile_id \in DOMAIN ProfileStore /\ profile_version = "1.0.0"
             THEN ProfileStore[profile_id]
             ELSE [status |-> "missing", profile |-> ExampleProfile]
      raise(args, msg) ==
        [ok |-> FALSE, profile |-> e.profile, profile_ref_hash |-> << >>,
         args |-> args, msg |-> msg]
  IN CASE e.status = "ok" /\ default_must_be_deny(e.profile) ->
            [ok |-> TRUE, profile |-> e.profile,
             profile_ref_hash |-> ProfileBytesHash(e.profile), args |-> FALSE, msg |-> ""]
       [] e.status = "ok" /\ ~default_must_be_deny(e.profile) ->
            raise(TRUE, "INVALID_PROFILE_DEFAULT")
       [] e.status = "missing" -> raise(TRUE, "PROFILE_NOT_FOUND")
       [] e.status = "corrupt" -> raise(TRUE, "PROFILE_PARSE_ERROR")
       [] e.status = "unreadable" -> raise(TRUE, "cannot read profile")
       [] OTHER -> raise(FALSE, "")

(***************************************************************************)
(* gate.py: the handler of POST /v1/execute.                               *)
(***************************************************************************)
\* _audit_record_from_denied with received_at among the provenance inputs.
audit_record_from_denied_stamped(request_id, request_hash, profile_id, profile_version, profile_ref_hash, decision_type, reason_code, runtime, received_at, decided_at) ==
  [provenance_id |-> provenance_id_from_inputs(
                       request_hash \o << "@", ToString(received_at) >>,
                       profile_ref_hash, runtime.version),
   seq |-> 0,
   request_id |-> request_id,
   request_hash |-> request_hash,
   decision_type |-> decision_type,
   reason_code |-> reason_code,
   approved_call |-> NoCall,
   profile_id |-> profile_id,
   profile_version |-> profile_version,
   profile_ref_hash |-> profile_ref_hash,
   runtime |-> runtime,
   timestamps |-> [received_at |-> received_at, decided_at |-> decided_at,
                   logged_at |-> now]]

\* _audit_record_from_denied, as execute calls it: approved_call and
\* decision are never passed; logged_at is read from the clock.
audit_record_from_denied(request_id, request_hash, profile_id, profile_version, profile_ref_hash, decision_type, reason_code, runtime, received_at, decided_at) ==
  LET logged_at == now
      runtime_version == runtime.version
      prov_id == provenance_id_from_inputs(request_hash, profile_ref_hash, runtime_version)
  IN [provenance_id |-> prov_id,
      seq |-> 0,
      request_id |-> request_id,
      request_hash |-> request_hash,
      decision_type |-> decision_type,
      reason_code |-> reason_code,
      approved_call |-> NoCall,
      profile_id |-> profile_id,
      profile_version |-> profile_version,
      profile_ref_hash |-> profile_ref_hash,
      runtime |-> runtime,
      timestamps |-> [received_at |-> received_at, decided_at |-> decided_at,
                      logged_at |-> logged_at]]

\* The locals of execute that the exception handler reads.
Locals(request_id, profile_id, profile_version, profile_ref_hash) ==
  [request_id |-> request_id, profile_id |-> profile_id,
   profile_version |-> profile_version, profile_ref_hash |-> profile_ref_hash]

DefaultLocals == Locals("UNKNOWN", "UNKNOWN", "UNKNOWN", fallback_profile_ref_hash)

\* execute passing approved_call=decision.approved_call to
\* _audit_record_from_denied.
Outcome_with_call(decision, l, received_at, calls, handled) ==
  [decision |-> decision,
   record |-> [audit_record_from_denied(l.request_id, decision.request_hash,
                 l.profile_id, l.profile_version, l.profile_ref_hash,
                 decision.decision_type, decision.reason_code, decision.runtime,
                 received_at, now)
               EXCEPT !.approved_call = decision.approved_call],
   locals |-> l, calls |-> calls, handled |-> handled]

\* What a run of execute holds when it awaits the audit append: the
\* decision, the record to append, the locals, the stages it went through
\* (calls) and whether the exception handler built the decision.
Outcome(decision, l, received_at, calls, handled) ==
  [decision |-> decision,
   record |-> audit_record_from_denied(l.request_id, decision.request_hash,
                l.profile_id, l.profile_version, l.profile_ref_hash,
                decision.decision_type, decision.reason_code, decision.runtime,
                received_at, now),
   locals |-> l, calls |-> calls, handled |-> handled]

\* except Exception: (lines 234-257) the INTERNAL_ERROR decision over the
\* raw bytes, with the locals as they are when the exception is raised.
internal_error(raw, l, received_at, calls) ==
  Outcome(deny_decision("INTERNAL_ERROR", sha256_prefixed(raw), l.profile_id,
                        l.profile_version, l.profile_ref_hash, RuntimeIdentity),
          l, received_at, calls, TRUE)

\* The loader's message taken as the reason code without the membership test.
load_failure_reason_raw(e) == IF e.args THEN e.msg ELSE "PROFILE_PARSE_ERROR"

\* A loader error without a recognised reason code reported as INTERNAL_ERROR.
load_failure_reason_internal(e) ==
  IF e.args /\ e.msg \in ReasonCode THEN e.msg ELSE "INTERNAL_ERROR"

\* Lines 140-145: the reason code of a RuntimeError raised by load_profile.
load_failure_reason(e) ==
  LET reason_str == IF e.args THEN e.msg ELSE "PROFILE_PARSE_ERROR"
  IN IF reason_str \in ReasonCode THEN reason_str ELSE "PROFILE_PARSE_ERROR"

\* The ALLOW decision built from the args without their null members.
allow_for_stripped(req, req_hash, l) ==
  allow_decision(req_hash, l.profile_id, l.profile_version, l.profile_ref_hash,
                 req.tool.name,
                 [req.tool.args EXCEPT
                    !.f = [k \in { x \in DOMAIN req.tool.args.f : req.tool.args.f[x].t /= "null" }
                             |-> req.tool.args.f[k]]],
                 RuntimeIdentity)

\* Lines 206-214: the ALLOW decision echoes the request's tool call.
allow_for(req, req_hash, l) ==
  allow_decision(req_hash, l.profile_id, l.profile_version, l.profile_ref_hash,
                 req.tool.name, req.tool.args, RuntimeIdentity)

\* enforce with the constraints checked before the controls.
enforce_args_first(req, profile_model, req_hash, l) ==
  LET i == find_tool_permit(profile_model, req.tool.name)
      permit == profile_model.allowed_tools[i]
      deny(reason) == deny_decision(reason, req_hash, l.profile_id, l.profile_version,
                                    l.profile_ref_hash, RuntimeIdentity)
  IN IF i = 0 THEN deny("TOOL_NOT_ALLOWED")
     ELSE LET rc2 == enforce_constraints(req, permit)
          IN IF rc2.some THEN deny(rc2.v)
             ELSE LET rc == require_controls(req, permit)
                  IN IF rc.some THEN deny(rc.v)
                     ELSE allow_for(req, req_hash, l)

\* Lines 172-214: allowlist, controls, constraints; the decision.
enforce(req, profile_model, req_hash, l) ==
  LET i == find_tool_permit(profile_model, req.tool.name)
      permit == profile_model.allowed_tools[i]
      deny(reason) == deny_decision(reason, req_hash, l.profile_id, l.profile_version,
                                    l.profile_ref_hash, RuntimeIdentity)
  IN IF i = 0 THEN deny("TOOL_NOT_ALLOWED")
     ELSE LET rc == require_controls(req, permit)
          IN IF rc.some THEN deny(rc.v)
             ELSE LET rc2 == enforce_constraints(req, permit)
                  IN IF rc2.some THEN deny(rc2.v)
                     ELSE allow_for(req, req_hash, l)

\* ExecutionRequest.model_validate(obj) of a schema-valid obj.
model_validate(obj) ==
  [request_id |-> obj.request_id, tool |-> obj.tool, profile |-> obj.profile,
   context |-> obj.context, controls |-> obj.controls,
   submitted_at |-> obj.submitted_at]

\* A context check that also turns down a request that carries submitted_at.
ctx_mismatch_dated(req) ==
  req.submitted_at.some \/ req.context.snapshot_hash /= hash_json(req.context.snapshot)

\* The context check switched off.
ctx_mismatch_off(req) == FALSE

\* Lines 109-110: the recomputed snapshot hash differs from the claimed one.
ctx_mismatch(req) == req.context.snapshot_hash /= hash_json(req.context.snapshot)

\* Lines 30-228 and 234-257: execute from the body to the await of the
\* audit append (no suspension point in between).
pipeline(body, received_at) ==
  LET raw == RawBytes(body)
      obj == body.obj
      l0 == DefaultLocals
      deny0(reason, h, calls) ==
        Outcome(deny_decision(reason, h, l0.profile_id, l0.profile_version,
                              l0.profile_ref_hash, RuntimeIdentity),
                l0, received_at, calls, FALSE)
  IN IF ~body.json
       THEN deny0("REQUEST_PARSE_ERROR", sha256_prefixed(raw), << "parse" >>)
     ELSE IF ~SchemaValid(obj)
       THEN IF Encodable(obj.tool.args)
              THEN deny0("REQUEST_SCHEMA_INVALID", sha256_prefixed(ObjTokens(obj)),
                         << "parse", "validate" >>)
              ELSE internal_error(raw, l0, received_at, << "parse", "validate" >>)
     ELSE
       LET req == model_validate(obj)
           l1 == Locals(req.request_id, req.profile.id, req.profile.version,
                        fallback_profile_ref_hash)
           req_hash == sha256_prefixed(DumpTokens(req))
           lp == load_profile(l1.profile_id, l1.profile_version)
           l2 == [l1 EXCEPT !.profile_ref_hash = lp.profile_ref_hash]
       IN IF ~Encodable(req.tool.args)
            THEN internal_error(raw, l1, received_at, << "parse", "validate" >>)
          ELSE IF ctx_mismatch(req)
            THEN Outcome(deny_decision("CTX_HASH_MISMATCH", req_hash, l1.profile_id,
                                       l1.profile_version, l1.profile_ref_hash,
                                       RuntimeIdentity),
                         l1, received_at, << "parse", "validate", "ctx_check" >>, FALSE)
          ELSE IF ~lp.ok
            THEN Outcome(deny_decision(load_failure_reason(lp), req_hash, l1.profile_id,
                                       l1.profile_version, l1.profile_ref_hash,
                                       RuntimeIdentity),
                         l1, received_at,
                         << "parse", "validate", "ctx_check", "load_profile" >>, FALSE)
          ELSE Outcome(enforce(req, lp.profile, req_hash, l2), l2, received_at,
                       << "parse", "validate", "ctx_check", "load_profile", "enforce" >>,
                       FALSE)

(***************************************************************************)
(* audit.py (not in the source tree): the append-only, hash-chained log.   *)
(***************************************************************************)
ZeroHash == << "sha256:", "0000000000000000000000000000000000000000000000000000000000000000" >>

\* canonical_json_bytes of a record with its seq and prev_hash, without its
\* record_hash.
RecordTokens(rec, seq, prev_hash) ==
  << "{", "approved_call", ":", "null", ",", "decision_type", ":", "s", rec.decision_type, ",",
     "integrity", ":", "{", "prev_hash", ":" >> \o prev_hash
  \o << "}", ",", "profile_id", ":", "s", rec.profile_id, ",",
        "profile_ref_hash", ":" >> \o rec.profile_ref_hash
  \o << ",", "profile_version", ":", "s", rec.profile_version, ",",
        "provenance_id", ":" >> \o rec.provenance_id
  \o << ",", "reason_code", ":", "s", rec.reason_code, ",",
        "request_hash", ":" >> \o rec.request_hash
  \o << ",", "request_id", ":", "s", rec.request_id, ",",
        "runtime", ":", "{", "build", ":", "s", rec.runtime.build, ",",
        "name", ":", "s", rec.runtime.name, ",", "version", ":", "s", rec.runtime.version, "}", ",",
        "seq", ":", "n", ToString(seq), ",",
        "timestamps", ":", "{", "decided_at", ":", "n", ToString(rec.timestamps.decided_at), ",",
        "logged_at", ":", "n", ToString(rec.timestamps.logged_at), ",",
        "received_at", ":", "n", ToString(rec.timestamps.received_at), "}", "}" >>

\* The tail an appender reads: the next seq and the hash to chain onto.
ReadTail ==
  [seq |-> Len(audit),
   prev_hash |-> IF Len(audit) = 0 THEN ZeroHash
                 ELSE audit[Len(audit)].integrity.record_hash]

NoTail == [seq |-> 0, prev_hash |-> ZeroHash]

\* An append that keeps the seq the gate put in the record.
Written_keep_seq(rec, tail) ==
  rec @@ [integrity |-> [prev_hash |-> tail.prev_hash,
                         record_hash |-> sha256_prefixed(RecordTokens(rec, rec.seq, tail.prev_hash))]]

\* The line append_audit_record writes: the gate's seq is overwritten.
Written(rec, tail) ==
  [rec EXCEPT !.seq = tail.seq]
  @@ [integrity |-> [prev_hash |-> tail.prev_hash,
                     record_hash |-> sha256_prefixed(RecordTokens(rec, tail.seq, tail.prev_hash))]]

\* An append that does not wait for the lock.
LockFree_always == TRUE

\* The exclusive lock of the log is free.
LockFree == lock = 0

(***************************************************************************)
(* The state: the clock, the runs of execute (one per request slot), the   *)
(* audit log and the holder of its lock (0: nobody).                       *)
(***************************************************************************)
NoDecision == Decision("DENY", "INTERNAL_ERROR", << >>, "", "", << >>, RuntimeIdentity, NoCall)

NoOutcome ==
  [decision |-> NoDecision,
   record |-> [provenance_id |-> << >>, seq |-> 0, request_id |-> "", request_hash |-> << >>,
               decision_type |-> "DENY", reason_code |-> "INTERNAL_ERROR",
               approved_call |-> NoCall, profile_id |-> "", profile_version |-> "",
               profile_ref_hash |-> << >>, runtime |-> RuntimeIdentity,
               timestamps |-> [received_at |-> 0, decided_at |-> 0, logged_at |-> 0]],
   locals |-> DefaultLocals, calls |-> << >>, handled |-> FALSE]

NoBody ==
  [json |-> FALSE,
   obj |-> [extra |-> FALSE, request_id |-> "", tool |-> [name |-> "", args |-> NoArgs],
            profile |-> [id |-> "", version |-> ""],
            context |-> [snapshot |-> NoArgs, snapshot_hash |-> << >>],
            controls |-> NoControls, submitted_at |-> NoStr]]

IdleRun ==
  [pc |-> "idle", body |-> NoBody, received_at |-> 0, out |-> NoOutcome,
   first |-> NoDecision, tail |-> NoTail, failed |-> 0,
   reply |-> [some |-> FALSE, d |-> NoDecision], cancelled |-> FALSE]

InitOn(R) ==
  /\ now = 0
  /\ reqs = [r \in R |-> IdleRun]
  /\ audit = << >>
  /\ lock = 0
  /\ made = [ok |-> FALSE, d |-> NoDecision]

\* Lines 27-28: received_at = utc_now_iso(); raw = await request.body().
\* The slots are numbered in the order the requests arrive, and the clock
\* is a logical one: it advances with every arrival.
Receive(r, body) ==
  /\ reqs[r].pc = "idle"
  /\ \A q \in DOMAIN reqs : q < r => reqs[q].pc /= "idle"
  /\ reqs' = [reqs EXCEPT ![r].pc = "recv", ![r].body = body, ![r].received_at = now]
  /\ now' = now + 1
  /\ UNCHANGED <<audit, lock, made>>

\* execute returning a parse error without the audit append.
Decide_parse_unlogged(r) ==
  /\ reqs[r].pc = "recv"
  /\ LET out == pipeline(reqs[r].body, reqs[r].received_at)
     IN reqs' = [reqs EXCEPT ![r].pc = IF reqs[r].body.json THEN "append" ELSE "appended",
                             ![r].out = out, ![r].first = out.decision]
  /\ UNCHANGED <<now, audit, lock, made>>

\* Lines 30-228: up to await anyio.to_thread.run_sync(append_audit_record, record).
Decide(r) ==
  /\ reqs[r].pc = "recv"
  /\ LET out == pipeline(reqs[r].body, reqs[r].received_at)
     IN reqs' = [reqs EXCEPT ![r].pc = "append", ![r].out = out, ![r].first = out.decision]
  /\ UNCHANGED <<now, audit, lock, made>>

\* append_audit_record in its worker thread: take the lock, read the tail.
AuditLock(r) ==
  /\ reqs[r].pc = "append"
  /\ LockFree
  /\ lock' = r
  /\ reqs' = [reqs EXCEPT ![r].pc = "locked", ![r].tail = ReadTail]
  /\ UNCHANGED <<now, audit, made>>

\* Write the record, flush, release the lock, return.
AuditWrite(r) ==
  /\ reqs[r].pc = "locked"
  /\ audit' = Append(audit, Written(reqs[r].out.record, reqs[r].tail))
  /\ lock' = 0
  /\ reqs' = [reqs EXCEPT ![r].pc = "appended"]
  /\ UNCHANGED <<now, made>>

\* The exception of the append swallowed: execute goes on to its return.
AuditFail_swallowed(r) ==
  /\ reqs[r].pc = "locked"
  /\ lock' = 0
  /\ reqs' = [reqs EXCEPT ![r].failed = @ + 1, ![r].pc = "appended"]
  /\ UNCHANGED <<now, audit, made>>

\* The write or the flush fails: nothing is appended, the lock is released
\* and the exception reaches execute.  Raised by the append of the
\* pipeline's decision it lands in except Exception (lines 234-258), which
\* appends an INTERNAL_ERROR record; raised by that append it leaves execute.
AuditFail(r) ==
  /\ reqs[r].pc = "locked"
  /\ lock' = 0
  /\ reqs' = [reqs EXCEPT
       ![r].failed = @ + 1,
       ![r].pc = IF reqs[r].out.handled THEN "raised" ELSE "append",
       ![r].out = IF reqs[r].out.handled THEN @
                  ELSE internal_error(RawBytes(reqs[r].body), @.locals,
                                      reqs[r].received_at, @.calls)]
  /\ UNCHANGED <<now, audit, made>>

\* A reply with the decision the pipeline computed first, whatever the
\* exception handler substituted.
Reply_original(r) ==
  /\ reqs[r].pc = "appended"
  /\ reqs' = [reqs EXCEPT ![r].pc = "done",
                          ![r].reply = [some |-> TRUE, d |-> reqs[r].first]]
  /\ UNCHANGED <<now, audit, lock, made>>

\* return decision.model_dump()
Reply(r) ==
  /\ reqs[r].pc = "appended"
  /\ ~reqs[r].cancelled
  /\ reqs' = [reqs EXCEPT ![r].pc = "done",
                          ![r].reply = [some |-> TRUE, d |-> reqs[r].out.decision]]
  /\ UNCHANGED <<now, audit, lock, made>>

\* A cancellation that takes the worker thread down with the task: the
\* append stops where it is.
Cancel_abandon(r) ==
  /\ reqs[r].pc = "locked"
  /\ ~reqs[r].cancelled
  /\ reqs' = [reqs EXCEPT ![r].cancelled = TRUE, ![r].pc = "cancelled"]
  /\ UNCHANGED <<now, audit, lock, made>>

\* The transport cancels the request task while it awaits
\* anyio.to_thread.run_sync(append_audit_record, record) (line 229 or 258).
\* run_sync is called without abandon_on_cancel: the await is shielded and
\* the worker thread runs append_audit_record to its end.
Cancel(r) ==
  /\ reqs[r].pc \in { "append", "locked" }
  /\ ~reqs[r].cancelled
  /\ reqs' = [reqs EXCEPT ![r].cancelled = TRUE]
  /\ UNCHANGED <<now, audit, lock, made>>

\* The append of a cancelled task fails and CancelledError, which
\* except Exception does not catch, is raised at the next checkpoint, the
\* one that opens the handler's run_sync (line 258): execute ends without a
\* second append.  (AuditFail is the other outcome: the cancellation is not
\* delivered and the handler appends.)
CancelledFail(r) ==
  /\ reqs[r].pc = "locked"
  /\ reqs[r].cancelled
  /\ lock' = 0
  /\ reqs' = [reqs EXCEPT ![r].failed = @ + 1, ![r].pc = "cancelled"]
  /\ UNCHANGED <<now, audit, made>>

\* return decision.model_dump() of a cancelled task: nobody reads the reply.
Discard(r) ==
  /\ reqs[r].pc = "appended"
  /\ reqs[r].cancelled
  /\ reqs' = [reqs EXCEPT ![r].pc = "done"]
  /\ UNCHANGED <<now, audit, lock, made>>

(***************************************************************************)
(* The request bodies the model submits.                                   *)
(***************************************************************************)
\* An object with its keys in sorted order in the body, and the same
\* object with its keys written in the opposite order.
Args(f) ==
  [obj |-> TRUE, enc |-> TRUE, f |-> f,
   ord |-> SelectSeq(KeyOrder, LAMBDA k : k \in DOMAIN f)]

Reordered(a) == [a EXCEPT !.ord = [i \in 1 .. Len(a.ord) |-> a.ord[Len(a.ord) + 1 - i]]]

Snapshot == Args((K_amount :> JNum(1)) @@ (K_to :> JStr("x")))

Mail(to, subject) == Args((K_to :> to) @@ (K_subject :> subject))
Pay(amount, confirm, to) == Args((K_amount :> amount) @@ (K_confirm :> confirm) @@ (K_to :> to))

MailOk == Mail(JStr("bob@example.com"), JStr("hi"))
PayOk == Pay(JNum(50), JBool(TRUE), JStr("bob"))
PayNaN == Pay(JNaN, JBool(TRUE), JStr("bob"))
PayInf == Pay(JInf, JBool(TRUE), JStr("bob"))
SnapshotNaN == Args((K_amount :> JNaN) @@ (K_to :> JStr("x")))

\* A payload with a lone surrogate in a string: it cannot be encoded.
MailSurrogate == [MailOk EXCEPT !.enc = FALSE]

ArgsSet ==
  { MailOk,
    Mail(JStr("bob@gmail.com"), JStr("hi")),
    Args(K_subject :> JStr("hi")),
    Mail(JNull, JStr("hi")),
    Mail(JNum(5), JStr("hi")),
    Mail(JStr("bob@example.com"), JStr("hello there")),
    Mail(JStr("bob@example.com"), JNum(7)),
    Args(K_to :> JStr("bob@example.com")),
    PayOk,
    Pay(JNum(500), JBool(TRUE), JStr("bob")),
    Pay(JNum(0), JBool(TRUE), JStr("bob")),
    Pay(JBool(TRUE), JBool(TRUE), JStr("bob")),
    Pay(JStr("50"), JBool(TRUE), JStr("bob")),
    Pay(JNum(50), JStr("yes"), JStr("bob")),
    Pay(JNum(50), JNum(1), JStr("bob")),
    Pay(JNum(50), JBool(TRUE), JStr("carol")),
    Pay(JNum(500), JStr("yes"), JStr("carol")),
    Args((K_amount :> JNum(50)) @@ (K_confirm :> JBool(TRUE))),
    NoArgs,
    MailSurrogate }

ToolNames == { "email.send", "storage.put", "pay.send", "odd.tool", "raw.tool", "db.drop_all" }

ControlsSet ==
  { NoControls, Controls(NoStr), Controls(Some("")), Controls(Some("APPROVED")),
    Controls(Some("approved")) }

Request(request_id, name, args, profile_id, snapshot_hash, controls) ==
  [json |-> TRUE,
   obj |-> [extra |-> FALSE, request_id |-> request_id,
            tool |-> [name |-> name, args |-> args],
            profile |-> [id |-> profile_id, version |-> "1.0.0"],
            context |-> [snapshot |-> Snapshot, snapshot_hash |-> snapshot_hash],
            controls |-> controls, submitted_at |-> NoStr]]

\* The values of submitted_at: absent, a timestamp, another one, "".
SubmittedAtSet ==
  { NoStr, Some("2026-01-01T00:00:00Z"), Some("1999-12-31T23:59:59Z"), Some("") }

GoodCtx == hash_json(Snapshot)
BadCtx == hash_json(Args(K_amount :> JNum(2)))

Garbage == [NoBody EXCEPT !.json = FALSE]

Bodies ==
  { Request("req-1", t, a, "example", GoodCtx, c) :
      t \in ToolNames, a \in ArgsSet, c \in ControlsSet }
  \cup { Request("req-1", t, MailOk, p, GoodCtx, c) :
           t \in { "email.send", "db.drop_all" },
           p \in { "missing", "corrupt", "baddefault", "unreadable", "silent", "nowhere" },
           c \in { NoControls, Controls(Some("APPROVED")) } }
  \cup { Request("req-1", t, a, p, BadCtx, NoControls) :
           t \in { "email.send", "db.drop_all" }, a \in { MailOk, MailSurrogate },
           p \in { "example", "missing" } }
  \cup { [Request("req-1", "email.send", a, "example", GoodCtx, NoControls)
            EXCEPT !.obj.extra = TRUE] : a \in { MailOk, MailSurrogate } }
  \cup { Request("req-1", t, a, "example", GoodCtx, NoControls) :
           t \in { "deep.tool", "blank.tool" },
           a \in { MailOk, Args(K_meta_to :> JStr("x")), Args(K_empty :> JStr("x")),
                   Args(K_meta_to :> JNum(1)), NoArgs } }
  \cup { [Request("req-1", t, a, p, h, c) EXCEPT !.obj.submitted_at = at] :
           t \in { "email.send", "storage.put" },
           a \in { MailOk, Mail(JStr("bob@gmail.com"), JStr("hi")) },
           p \in { "example", "missing" }, h \in { GoodCtx, BadCtx },
           c \in { NoControls, Controls(Some("APPROVED")) },
           at \in SubmittedAtSet \ { NoStr } }
  \cup { [Request("req-1", t, a, "example", h, c) EXCEPT !.obj.context.snapshot = sn] :
           t \in { "email.send", "pay.send", "db.drop_all" },
           a \in { Reordered(MailOk), Reordered(PayOk), Reordered(MailSurrogate),
                   MailOk, MailSurrogate },
           h \in { GoodCtx, BadCtx },
           c \in { NoControls, Controls(Some("APPROVED")) },
           sn \in { Reordered(Snapshot) } }
  \cup { [Request("req-1", "email.send", a, "example", GoodCtx, NoControls)
            EXCEPT !.obj.extra = TRUE] : a \in { Reordered(MailOk) } }
  \cup { Request("req-1", "pay.send", a, "example", h, c) :
           a \in { PayNaN, PayInf },
           h \in { GoodCtx, BadCtx },
           c \in { NoControls, Controls(Some("APPROVED")) } }
  \cup { [Request("req-1", t, MailOk, "example", hash_json(SnapshotNaN), NoControls)
            EXCEPT !.obj.context.snapshot = SnapshotNaN] :
           t \in { "email.send", "db.drop_all" } }
  \cup { Request("req-1", "email.send", Reordered(MailOk), "example", GoodCtx, NoControls) }
  \cup { Request("", "email.send", MailOk, "example", GoodCtx, NoControls),
         Request("req-1", "", MailOk, "example", GoodCtx, NoControls),
         Request("req-1", "email.send", MailOk, "example", << >>, NoControls),
         Garbage }

\* The bodies of the runs that overlap.
FewBodies ==
  { Request("req-1", "email.send", MailOk, "example", GoodCtx, NoControls),
    Request("req-1", "db.drop_all", MailOk, "example", GoodCtx, NoControls),
    Garbage }

(***************************************************************************)
(* Specifications.                                                         *)
(***************************************************************************)
Handlers(R, B) ==
  \E r \in R :
    \/ \E body \in B : Receive(r, body)
    \/ Decide(r)
    \/ AuditLock(r)
    \/ AuditWrite(r)
    \/ AuditFail(r)
    \/ Reply(r)

\* models.py: ExecutionDecision(...) on any fields: the decision, or the
\* ValidationError (ok is FALSE).
ConstructDecision ==
  /\ \E dt \in DecisionType, rc \in { "OK", "TOOL_NOT_ALLOWED", "INTERNAL_ERROR" },
        ac \in { NoCall, ApprovedCall("", MailOk) }
               \cup { ApprovedCall(t, a) : t \in { "email.send", "storage.put" },
                                          a \in { MailOk, PayOk } } :
       LET d == [Decision("DENY", rc, GoodCtx, "example", "1.0.0", hash_json_empty,
                          RuntimeIdentity, ac) EXCEPT !.decision_type = dt]
       IN made' = [ok |-> ExecutionDecisionValid(d), d |-> d]
  /\ UNCHANGED <<now, reqs, audit, lock>>

\* One request, any body.
Init == InitOn({ 1 })
Next == Handlers({ 1 }, Bodies)
Spec == Init /\ [][Next]_vars

\* NumReqs requests in parallel.
InitPar == InitOn(1 .. NumReqs)
NextPar == Handlers(1 .. NumReqs, FewBodies)
SpecPar == InitPar /\ [][NextPar]_vars

\* The scheduling of a run: the event loop resumes the handler, the lock is
\* eventually granted to a waiting appender, the worker thread finishes its
\* append one way or the other.
Fairness(R) ==
  \A r \in R :
    /\ WF_vars(Decide(r))
    /\ SF_vars(AuditLock(r))
    /\ WF_vars(AuditWrite(r) \/ AuditFail(r))
    /\ WF_vars(Reply(r))

SpecParLive == SpecPar /\ Fairness(1 .. NumReqs)

\* One request, and ExecutionDecision built from any fields.
NextDecision == Handlers({ 1 }, FewBodies) \/ ConstructDecision
SpecDecision == Init /\ [][NextDecision]_vars

\* NumReqs requests in parallel, any of which the transport may abandon
\* while its audit append is in flight.
CancelBodies == { Request("req-1", "email.send", MailOk, "example", GoodCtx, NoControls) }
NextCancel ==
  \/ Handlers(1 .. NumReqs, CancelBodies)
  \/ \E r \in 1 .. NumReqs : Cancel(r) \/ CancelledFail(r) \/ Discard(r)
SpecCancel == InitPar /\ [][NextCancel]_vars

(***************************************************************************)
(* Properties.                                                             *)
(***************************************************************************)
Runs == DOMAIN reqs

\* The run has assembled a decision (it is at or past its audit append).
Decided(r) == reqs[r].pc \notin { "idle", "recv" }

\* The run went through the enforcement engine.
Enforced(r) == Decided(r) /\ Len(reqs[r].out.calls) = 5

MinOf(S) == CHOOSE x \in S : \A y \in S : x <= y

Is(d, decision_type, reason_code) ==
  d.decision_type = decision_type /\ d.reason_code = reason_code

\* The request's tool call and the profile it names, read off the body.
ToolOf(r) == reqs[r].body.obj.tool
ProfileOf(r) == load_profile(reqs[r].body.obj.profile.id, reqs[r].body.obj.profile.version)
Matches(r) ==
  { i \in 1 .. Len(ProfileOf(r).profile.allowed_tools) :
      ProfileOf(r).profile.allowed_tools[i].name = ToolOf(r).name }
PermitOf(r) == ProfileOf(r).profile.allowed_tools[MinOf(Matches(r))]
RulesOf(r) ==
  IF PermitOf(r).constraints.some THEN PermitOf(r).constraints.arg_rules ELSE << >>

\* The request carries the approval token APPROVED.
Approved(r) ==
  /\ reqs[r].body.obj.controls.present
  /\ reqs[r].body.obj.controls.approval_token.some
  /\ reqs[r].body.obj.controls.approval_token.v = "APPROVED"

ControlsPass(r) == PermitOf(r).required_controls.approval_token => Approved(r)

\* The rules of the matched permit that do not pass on the request's args.
Failing(r) ==
  { j \in 1 .. Len(RulesOf(r)) : rule_result(ToolOf(r).args, RulesOf(r)[j]) /= "pass" }

\* The log holds the record of the run's decision d.
Logged(r, d) ==
  \E k \in 1 .. Len(audit) :
    /\ audit[k].request_hash = d.request_hash
    /\ audit[k].decision_type = d.decision_type
    /\ audit[k].reason_code = d.reason_code

\* C1 (fail-closed): a reply is ALLOW only if the body parsed, the schema
\* validated, the snapshot hash matched, the profile loaded, a permit
\* matched tool.name, the controls and every arg rule passed, and the audit
\* append succeeded; every other reply is DENY.
C1_FailClosed ==
  \A r \in Runs :
    /\ reqs[r].reply.some =>
         /\ reqs[r].reply.d.decision_type \in { "ALLOW", "DENY" }
         /\ reqs[r].reply.d.decision_type = "ALLOW" =>
              /\ reqs[r].body.json
              /\ SchemaValid(reqs[r].body.obj)
              /\ reqs[r].body.obj.context.snapshot_hash
                   = hash_json(reqs[r].body.obj.context.snapshot)
              /\ ProfileOf(r).ok
              /\ Matches(r) /= {}
              /\ ControlsPass(r)
              /\ Failing(r) = {}
              /\ reqs[r].failed = 0
              /\ Logged(r, reqs[r].reply.d)
    /\ (Decided(r) /\ reqs[r].failed > 0) => reqs[r].out.decision.decision_type = "DENY"

C1_Witness ==
  \E r \in Runs : reqs[r].reply.some /\ reqs[r].reply.d.decision_type = "ALLOW"

PairOk(d) ==
  \/ Is(d, "ALLOW", "OK")
  \/ d.decision_type = "DENY" /\ d.reason_code \in ReasonCode \ { "OK" }

\* C2: every decision the gate assembles or returns is (ALLOW, OK) or
\* (DENY, r) with r a reason code other than OK, also when the reason comes
\* from the message of the profile loader's error.
C2_DecisionPairs ==
  \A r \in Runs :
    /\ Decided(r) => PairOk(reqs[r].first) /\ PairOk(reqs[r].out.decision)
    /\ reqs[r].reply.some => PairOk(reqs[r].reply.d)

C2_Witness ==
  \E r \in Runs :
    /\ reqs[r].reply.some
    /\ reqs[r].body.obj.profile.id = "unreadable"
    /\ Is(reqs[r].reply.d, "DENY", "PROFILE_PARSE_ERROR")

CallIffAllow(d) == d.approved_call.present <=> d.decision_type = "ALLOW"

\* C3: a decision that was constructed has approved_call if and only if
\* its decision_type is ALLOW, whatever fields it was constructed from.
C3_ApprovedCallIffAllow ==
  /\ made.ok => CallIffAllow(made.d)
  /\ \A r \in Runs :
       /\ Decided(r) => CallIffAllow(reqs[r].first) /\ CallIffAllow(reqs[r].out.decision)
       /\ reqs[r].reply.some => CallIffAllow(reqs[r].reply.d)

C3_Witness ==
  /\ made.ok /\ made.d.decision_type = "ALLOW" /\ made.d.approved_call.present
  /\ \E r \in Runs : reqs[r].reply.some /\ reqs[r].reply.d.decision_type = "DENY"

\* C4: an ALLOW carries the tool name and the args of the request, the ones
\* the allowlist, the controls and the constraints were checked on.
C4_ApprovedCallEchoes ==
  \A r \in Runs :
    (Decided(r) /\ reqs[r].first.decision_type = "ALLOW") =>
      /\ reqs[r].first.approved_call.tool_name = ToolOf(r).name
      /\ reqs[r].first.approved_call.tool_args = ToolOf(r).args
      /\ reqs[r].reply.some /\ reqs[r].reply.d.decision_type = "ALLOW" =>
           reqs[r].reply.d.approved_call = reqs[r].first.approved_call
      /\ \E i \in 1 .. Len(ProfileOf(r).profile.allowed_tools) :
           LET permit == ProfileOf(r).profile.allowed_tools[i]
           IN /\ permit.name = reqs[r].first.approved_call.tool_name
              /\ permit.constraints.some =>
                   \A j \in 1 .. Len(permit.constraints.arg_rules) :
                     rule_result(reqs[r].first.approved_call.tool_args,
                                 permit.constraints.arg_rules[j]) = "pass"

C4_Witness ==
  \E r \in Runs :
    /\ reqs[r].reply.some /\ reqs[r].reply.d.decision_type = "ALLOW"
    /\ reqs[r].reply.d.approved_call.tool_name = "storage.put"
    /\ K_to \in DOMAIN reqs[r].reply.d.approved_call.tool_args.f
    /\ reqs[r].reply.d.approved_call.tool_args.f[K_to].t = "null"

\* C5: enforcement decides in the order allowlist, controls, arg rules: no
\* permit named tool.name is TOOL_NOT_ALLOWED; else failing controls are
\* CONTROL_REQUIRED; else the first rule in list order that does not pass
\* gives the reason; else the decision is ALLOW.
C5_PhaseOrder ==
  \A r \in Runs :
    Enforced(r) =>
      IF Matches(r) = {} THEN Is(reqs[r].first, "DENY", "TOOL_NOT_ALLOWED")
      ELSE IF ~ControlsPass(r) THEN Is(reqs[r].first, "DENY", "CONTROL_REQUIRED")
      ELSE IF Failing(r) /= {}
        THEN /\ Is(reqs[r].first, "DENY",
                   rule_result(ToolOf(r).args, RulesOf(r)[MinOf(Failing(r))]))
             /\ reqs[r].first.reason_code
                  \in { "CONSTRAINT_VIOLATION", "CONSTRAINT_EVAL_ERROR" }
      ELSE Is(reqs[r].first, "ALLOW", "OK")

C5_Witness ==
  \E r \in Runs :
    /\ Enforced(r) /\ reqs[r].reply.some
    /\ ToolOf(r).name = "pay.send"
    /\ ~ControlsPass(r)
    /\ Failing(r) /= {}
    /\ Is(reqs[r].reply.d, "DENY", "CONTROL_REQUIRED")

Called(r) == { reqs[r].out.calls[i] : i \in 1 .. Len(reqs[r].out.calls) }

ValidRequest(r) == reqs[r].body.json /\ SchemaValid(reqs[r].body.obj)

CtxDiffers(r) ==
  reqs[r].body.obj.context.snapshot_hash /= hash_json(reqs[r].body.obj.context.snapshot)

ProfileReasons == { "PROFILE_NOT_FOUND", "PROFILE_PARSE_ERROR", "INVALID_PROFILE_DEFAULT" }

\* C6 as claimed: every schema-valid request whose snapshot hash differs is
\* decided DENY / CTX_HASH_MISMATCH without the loader or the enforcement
\* engine being invoked, and a profile-load failure is decided before any
\* enforcement reason.
C6_CtxMismatchAlwaysDecides ==
  \A r \in Runs :
    (Decided(r) /\ ValidRequest(r)) =>
      /\ CtxDiffers(r) =>
           /\ Is(reqs[r].first, "DENY", "CTX_HASH_MISMATCH")
           /\ Called(r) \cap { "load_profile", "enforce" } = {}
      /\ (~CtxDiffers(r) /\ ~ProfileOf(r).ok) =>
           /\ reqs[r].first.decision_type = "DENY"
           /\ reqs[r].first.reason_code \in ProfileReasons
           /\ "enforce" \notin Called(r)

\* C6 as amended: the same for every schema-valid request whose canonical
\* bytes can be encoded; when they cannot, the request hash computed before
\* the context check raises and the decision is DENY / INTERNAL_ERROR.  In
\* both cases a differing snapshot hash keeps the loader and the
\* enforcement engine from being invoked, and the stages run in the order
\* parse, validate, ctx_check, load_profile, enforce.
C6_StageOrder ==
  \A r \in Runs :
    /\ Decided(r) =>
         reqs[r].out.calls
           = SubSeq(<< "parse", "validate", "ctx_check", "load_profile", "enforce" >>,
                    1, Len(reqs[r].out.calls))
    /\ (Decided(r) /\ ValidRequest(r)) =>
         /\ CtxDiffers(r) =>
              /\ Called(r) \cap { "load_profile", "enforce" } = {}
              /\ IF Encodable(ToolOf(r).args)
                   THEN Is(reqs[r].first, "DENY", "CTX_HASH_MISMATCH")
                   ELSE Is(reqs[r].first, "DENY", "INTERNAL_ERROR")
         /\ (~CtxDiffers(r) /\ ~ProfileOf(r).ok) =>
              /\ "enforce" \notin Called(r)
              /\ reqs[r].first.decision_type = "DENY"
              /\ IF Encodable(ToolOf(r).args)
                   THEN reqs[r].first.reason_code \in ProfileReasons
                   ELSE reqs[r].first.reason_code = "INTERNAL_ERROR"
         /\ (reqs[r].reply.some /\ reqs[r].failed = 0) => reqs[r].reply.d = reqs[r].first

C6_Witness ==
  \E r \in Runs :
    /\ reqs[r].reply.some
    /\ CtxDiffers(r)
    /\ ~ProfileOf(r).ok
    /\ ToolOf(r).name = "db.drop_all"
    /\ Is(reqs[r].reply.d, "DENY", "CTX_HASH_MISMATCH")

\* C7: with a matched permit that requires approval_token, a request with
\* no controls, no token, an empty token or a token other than APPROVED is
\* DENY / CONTROL_REQUIRED, and with the token APPROVED the controls phase
\* passes; with a permit that does not require it the phase always passes.
C7_Controls ==
  \A r \in Runs :
    (Enforced(r) /\ Matches(r) /= {}) =>
      LET c == reqs[r].body.obj.controls
          lacking == \/ ~c.present
                     \/ ~c.approval_token.some
                     \/ c.approval_token.v = ""
                     \/ c.approval_token.v /= "APPROVED"
          passes == /\ reqs[r].first.reason_code /= "CONTROL_REQUIRED"
                    /\ Failing(r) = {} => Is(reqs[r].first, "ALLOW", "OK")
                    /\ Failing(r) /= {} =>
                         reqs[r].first.reason_code
                           \in { "CONSTRAINT_VIOLATION", "CONSTRAINT_EVAL_ERROR" }
      IN /\ IF PermitOf(r).required_controls.approval_token
              THEN IF lacking THEN Is(reqs[r].first, "DENY", "CONTROL_REQUIRED") ELSE passes
              ELSE passes
         /\ (reqs[r].reply.some /\ reqs[r].failed = 0) => reqs[r].reply.d = reqs[r].first

C7_Witness ==
  \E r \in Runs :
    /\ reqs[r].reply.some
    /\ ToolOf(r).name = "storage.put"
    /\ reqs[r].body.obj.controls.approval_token = Some("approved")
    /\ Is(reqs[r].reply.d, "DENY", "CONTROL_REQUIRED")

\* The value at the rule's path is missing or null, has the wrong type for
\* the rule, or violates its max_len, enum, pattern, min or max.
ViolationCause(args, rule) ==
  /\ args.obj
  /\ Len(rule.path) > 0 /\ rule.path[1] = "$."
  /\ LET key == SubSeq(rule.path, 2, Len(rule.path))
         v == args.f[key]
     IN \/ key \notin DOMAIN args.f
        \/ v.t = "null"
        \/ /\ rule.type = "string"
           /\ \/ v.t /= "str"
              \/ rule.max_len.some /\ Len(v.s) > rule.max_len.v
              \/ rule.enum.some /\ v.s \notin rule.enum.v
              \/ rule.pattern.some /\ ~re_match(rule.pattern.v, v.s)
        \/ /\ rule.type = "number"
           /\ \/ v.t /= "num"
              \/ rule.min.some /\ v.n < rule.min.v
              \/ rule.max.some /\ v.n > rule.max.v
        \/ rule.type = "bool" /\ v.t /= "bool"

\* The field the rule constrains is present in args and not null.
Present(args, rule) ==
  /\ args.obj
  /\ SubSeq(rule.path, 2, Len(rule.path)) \in DOMAIN args.f
  /\ args.f[SubSeq(rule.path, 2, Len(rule.path))].t /= "null"

\* C8: past the allowlist and the controls, when the first rule that does
\* not pass fails on a missing or null value, a wrong type or a violated
\* limit, the decision is DENY / CONSTRAINT_VIOLATION; every field a rule
\* of the permit constrains is present in an ALLOWed call.
C8_ConstraintViolation ==
  \A r \in Runs :
    /\ (Enforced(r) /\ Matches(r) /= {} /\ ControlsPass(r) /\ Failing(r) /= {}) =>
         (ViolationCause(ToolOf(r).args, RulesOf(r)[MinOf(Failing(r))]) =>
            Is(reqs[r].first, "DENY", "CONSTRAINT_VIOLATION"))
    /\ (Decided(r) /\ reqs[r].first.decision_type = "ALLOW") =>
         \A j \in 1 .. Len(RulesOf(r)) :
           Present(reqs[r].first.approved_call.tool_args, RulesOf(r)[j])
    /\ (reqs[r].reply.some /\ reqs[r].reply.d.decision_type = "ALLOW") =>
         \A j \in 1 .. Len(RulesOf(r)) :
           Present(reqs[r].reply.d.approved_call.tool_args, RulesOf(r)[j])

C8_Witness ==
  \E r \in Runs :
    /\ reqs[r].reply.some
    /\ ToolOf(r).name = "email.send"
    /\ K_to \notin DOMAIN ToolOf(r).args.f
    /\ ToolOf(r).args.obj
    /\ Is(reqs[r].reply.d, "DENY", "CONSTRAINT_VIOLATION")

SameVerdict(d, e) ==
  /\ d.provenance_id = e.provenance_id
  /\ d.decision_type = e.decision_type
  /\ d.reason_code = e.reason_code

C10_HashChain ==
  /\ \A k \in 1 .. Len(audit) :
       /\ audit[k].seq = 0 => audit[k].integrity.prev_hash = ZeroHash
       /\ audit[k].seq > 0 =>
            \E j \in 1 .. Len(audit) :
              /\ audit[j].seq = audit[k].seq - 1
              /\ audit[k].integrity.prev_hash = audit[j].integrity.record_hash
       /\ k > 1 => audit[k].integrity.prev_hash = audit[k - 1].integrity.record_hash
       /\ audit[k].integrity.record_hash
            = sha256_prefixed(RecordTokens(audit[k], audit[k].seq,
                                           audit[k].integrity.prev_hash))
  /\ \A r \in Runs : reqs[r].pc = "locked" => reqs[r].tail = ReadTail

C10_Witness ==
  /\ Len(audit) >= 2
  /\ audit[1].request_hash /= audit[2].request_hash
  /\ audit[2].integrity.prev_hash = audit[1].integrity.record_hash
  /\ audit[1].timestamps.received_at > audit[2].timestamps.received_at

\* The records of the log that run r wrote (received_at is unique to a run:
\* the clock advances with every arrival).
RecordsOf(r) ==
  IF reqs[r].pc = "idle" THEN {}
  ELSE { k \in 1 .. Len(audit) : audit[k].timestamps.received_at = reqs[r].received_at }

\* C11 (audit ordering): the records of the log have seq 0, 1, ..., n-1
\* with no gap and no duplicate, the seq 0 the gate puts in every record is
\* overwritten at append, and every append that completes takes a seq
\* larger than the seq of every record appended before it, so of two
\* overlapping requests the smaller seq is the earlier append.
C11_SeqOrder ==
  /\ [](/\ { audit[k].seq : k \in 1 .. Len(audit) } = 0 .. (Len(audit) - 1)
        /\ \A j, k \in 1 .. Len(audit) : audit[j].seq = audit[k].seq => j = k
        /\ \A r \in Runs :
             /\ Decided(r) => reqs[r].out.record.seq = 0
             /\ \A k \in RecordsOf(r) : audit[k].seq = k - 1)
  /\ [][Len(audit') > Len(audit) =>
          /\ Len(audit') = Len(audit) + 1
          /\ \A k \in 1 .. Len(audit) :
               /\ audit'[k] = audit[k]
               /\ audit[k].seq < audit'[Len(audit')].seq]_vars

C11_Witness ==
  \E r1, r2 \in Runs :
    /\ r1 < r2
    /\ reqs[r1].reply.some /\ reqs[r2].reply.some
    /\ \E k1 \in RecordsOf(r1), k2 \in RecordsOf(r2) :
         /\ audit[k2].seq = 0
         /\ audit[k1].seq = 1

\* The record and the decision tell the same verdict.
Agree(rec, d) ==
  /\ rec.decision_type = d.decision_type
  /\ rec.reason_code = d.reason_code
  /\ rec.provenance_id = d.provenance_id

\* C12: for every request, whether or not an audit append fails, the log
\* holds at most one record of it and the caller gets at most one decision
\* (a reply is never replaced), and a record and a reply of the same
\* request agree on decision_type, reason_code and provenance_id.
C12_OneRecordOneDecision ==
  /\ [](\A r \in Runs :
          /\ Cardinality(RecordsOf(r)) <= 1
          /\ reqs[r].reply.some =>
               \A k \in RecordsOf(r) : Agree(audit[k], reqs[r].reply.d))
  /\ [][\A r \in Runs : reqs[r].reply.some => reqs'[r].reply = reqs[r].reply]_vars

C12_Witness ==
  \E r \in Runs :
    /\ reqs[r].failed = 1
    /\ reqs[r].first.decision_type = "ALLOW"
    /\ reqs[r].reply.some
    /\ \E k \in RecordsOf(r) : Agree(audit[k], reqs[r].reply.d)

\* C13 (audit before reply): on every path a decision is returned only after
\* the audit append of that decision has finished: at the moment of the
\* reply the record of the returned decision is already in the log and the
\* run no longer holds the lock; a run that returns nothing has seen the
\* append of its INTERNAL_ERROR decision fail; no run goes from its
\* decision to the reply without passing through the append.
C13_AuditBeforeReply ==
  /\ [](\A r \in Runs :
          /\ reqs[r].reply.some =>
               /\ lock /= r
               /\ \E k \in RecordsOf(r) :
                    /\ Agree(audit[k], reqs[r].reply.d)
                    /\ audit[k].request_hash = reqs[r].reply.d.request_hash
          /\ reqs[r].pc = "raised" =>
               /\ reqs[r].failed >= 1
               /\ Is(reqs[r].out.decision, "DENY", "INTERNAL_ERROR"))
  /\ [][\A r \in Runs :
          /\ (~reqs[r].reply.some /\ reqs'[r].reply.some) =>
               /\ RecordsOf(r) /= {}
               /\ reqs[r].pc = "appended"
          /\ (reqs[r].pc = "recv" /\ reqs'[r].pc /= "recv") => reqs'[r].pc = "append"]_vars

C13_Witness ==
  \E r \in Runs :
    /\ reqs[r].reply.some
    /\ reqs[r].body.json
    /\ ~SchemaValid(reqs[r].body.obj)
    /\ Is(reqs[r].reply.d, "DENY", "REQUEST_SCHEMA_INVALID")
    /\ RecordsOf(r) /= {}

\* C14 as claimed: when the audit append of a request's decision fails, the
\* gate returns a DENY with reason AUDIT_WRITE_FAILED in place of that
\* decision.
C14_AuditWriteFailed ==
  \A r \in Runs :
    (reqs[r].failed > 0 /\ reqs[r].pc \in { "done", "raised" }) =>
      /\ reqs[r].reply.some
      /\ Is(reqs[r].reply.d, "DENY", "AUDIT_WRITE_FAILED")

\* The append of an ALLOW fails and the caller is told INTERNAL_ERROR.
C14_Witness ==
  \E r \in Runs :
    /\ reqs[r].failed = 1
    /\ Is(reqs[r].first, "ALLOW", "OK")
    /\ reqs[r].reply.some
    /\ Is(reqs[r].reply.d, "DENY", "INTERNAL_ERROR")

\* C15 as claimed: every request received is eventually answered with a
\* decision and no exception leaves execute, also when the audit append
\* fails once or fails again in the internal-error fallback.
C15_EveryRequestReplied ==
  /\ \A r \in 1 .. NumReqs : [](reqs[r].pc /= "raised")
  /\ \A r \in 1 .. NumReqs : (reqs[r].pc = "recv") ~> reqs[r].reply.some

\* The append fails in the pipeline and again in the handler: the exception
\* leaves execute and the request is never answered.
C15_Witness ==
  \E r \in Runs :
    /\ reqs[r].pc = "raised"
    /\ reqs[r].failed = 2
    /\ ~reqs[r].reply.some
    /\ lock = 0

\* C16 as claimed: a decision built by the exception handler, at whatever
\* stage the exception was raised (after a successful profile load too), is
\* DENY / INTERNAL_ERROR over the hash of the raw request bytes and with the
\* fallback profile reference hash.
C16_InternalErrorFallbackHash ==
  \A r \in Runs :
    (Decided(r) /\ reqs[r].out.handled) =>
      /\ Is(reqs[r].out.decision, "DENY", "INTERNAL_ERROR")
      /\ reqs[r].out.decision.request_hash = sha256_prefixed(RawBytes(reqs[r].body))
      /\ reqs[r].out.decision.profile.profile_ref_hash = fallback_profile_ref_hash

\* An exception after the profile was loaded: the INTERNAL_ERROR reply
\* carries the loaded profile's hash.
C16_Witness ==
  \E r \in Runs :
    /\ reqs[r].reply.some
    /\ Enforced(r)
    /\ reqs[r].failed = 1
    /\ Is(reqs[r].reply.d, "DENY", "INTERNAL_ERROR")
    /\ reqs[r].reply.d.request_hash = sha256_prefixed(RawBytes(reqs[r].body))
    /\ reqs[r].reply.d.profile.profile_ref_hash = ProfileBytesHash(ExampleProfile)
    /\ ProfileBytesHash(ExampleProfile) /= fallback_profile_ref_hash

\* C17 as claimed: the request_hash of the decision is hash_json of the
\* validated request when schema validation succeeded, and the hash of the
\* raw request bytes when the body did not parse or did not validate.
C17_RequestHash ==
  \A r \in Runs :
    Decided(r) =>
      IF reqs[r].body.json /\ SchemaValid(reqs[r].body.obj)
        THEN reqs[r].first.request_hash
               = sha256_prefixed(DumpTokens(model_validate(reqs[r].body.obj)))
        ELSE /\ reqs[r].first.reason_code
                  = (IF reqs[r].body.json THEN "REQUEST_SCHEMA_INVALID"
                                          ELSE "REQUEST_PARSE_ERROR")
             /\ reqs[r].first.request_hash = sha256_prefixed(RawBytes(reqs[r].body))

\* A schema-invalid body is answered with the hash of its canonical form,
\* which is not the hash of the bytes received.
C17_Witness ==
  \E r \in Runs :
    /\ reqs[r].reply.some
    /\ reqs[r].failed = 0
    /\ Is(reqs[r].reply.d, "DENY", "REQUEST_SCHEMA_INVALID")
    /\ reqs[r].reply.d.request_hash = sha256_prefixed(ObjTokens(reqs[r].body.obj))
    /\ reqs[r].reply.d.request_hash /= sha256_prefixed(RawBytes(reqs[r].body))

\* C18: when the loader is invoked (schema-valid request, matching context
\* hash) and fails, the decision is DENY with the loader's reason when it
\* is PROFILE_NOT_FOUND, PROFILE_PARSE_ERROR or INVALID_PROFILE_DEFAULT and
\* PROFILE_PARSE_ERROR when the error carries no recognised reason code;
\* its profile_ref_hash is the fallback hash, its profile id and version
\* are the request's, and the enforcement phases are not run.
C18_ProfileLoadFailure ==
  \A r \in Runs :
    (Decided(r) /\ ValidRequest(r) /\ "load_profile" \in Called(r) /\ ~ProfileOf(r).ok) =>
      LET e == ProfileOf(r)
          d == reqs[r].first
      IN /\ ~CtxDiffers(r)
         /\ d.decision_type = "DENY"
         /\ d.reason_code \in ProfileReasons
         /\ d.reason_code = (IF e.args /\ e.msg \in ProfileReasons
                               THEN e.msg ELSE "PROFILE_PARSE_ERROR")
         /\ d.profile.profile_ref_hash = fallback_profile_ref_hash
         /\ d.profile.id = reqs[r].body.obj.profile.id
         /\ d.profile.version = reqs[r].body.obj.profile.version
         /\ "enforce" \notin Called(r)
         /\ ~d.approved_call.present
         /\ (reqs[r].reply.some /\ reqs[r].failed = 0) => reqs[r].reply.d = d

C18_Witness ==
  \E r \in Runs :
    /\ reqs[r].reply.some
    /\ reqs[r].body.obj.profile.id = "unreadable"
    /\ ProfileOf(r).msg \notin ReasonCode
    /\ ToolOf(r).name = "email.send"
    /\ Is(reqs[r].reply.d, "DENY", "PROFILE_PARSE_ERROR")
    /\ reqs[r].reply.d.profile.profile_ref_hash = fallback_profile_ref_hash
    /\ reqs[r].reply.d.profile.id = "unreadable"

\* The profile file the request names, when there is one.
StoredProfile(r) ==
  LET p == reqs[r].body.obj.profile
  IN IF p.id \in DOMAIN ProfileStore /\ p.version = "1.0.0"
          /\ ProfileStore[p.id].status = "ok"
       THEN Some(ProfileStore[p.id].profile)
       ELSE [some |-> FALSE, v |-> ExampleProfile]

BoolAtNumber(r) ==
  { j \in 1 .. Len(RulesOf(r)) :
      /\ RulesOf(r)[j].type = "number"
      /\ Len(RulesOf(r)[j].path) > 1 /\ RulesOf(r)[j].path[1] = "$."
      /\ ToolOf(r).args.obj
      /\ SubSeq(RulesOf(r)[j].path, 2, Len(RulesOf(r)[j].path)) \in DOMAIN ToolOf(r).args.f
      /\ ToolOf(r).args.f[SubSeq(RulesOf(r)[j].path, 2, Len(RulesOf(r)[j].path))].t = "bool" }

\* C20 as claimed: a boolean at the path of a rule of type number is not a
\* number: the rule fails with CONSTRAINT_VIOLATION whatever min and max
\* are, so the request is never ALLOWed.
C20_BoolIsNotNumber ==
  \A r \in Runs :
    (Enforced(r) /\ Matches(r) /= {} /\ BoolAtNumber(r) /= {}) =>
      /\ reqs[r].first.decision_type /= "ALLOW"
      /\ ( /\ ControlsPass(r)
           /\ \A i \in 1 .. (MinOf(BoolAtNumber(r)) - 1) : i \notin Failing(r) ) =>
           Is(reqs[r].first, "DENY", "CONSTRAINT_VIOLATION")

\* pay.send with amount true, within min 1 and max 100 as the number 1, is
\* ALLOWed.
C20_Witness ==
  \E r \in Runs :
    /\ reqs[r].reply.some
    /\ ToolOf(r).name = "pay.send"
    /\ Is(reqs[r].reply.d, "ALLOW", "OK")
    /\ BoolAtNumber(r) /= {}
    /\ K_amount \in DOMAIN ToolOf(r).args.f
    /\ ToolOf(r).args.f[K_amount] = JBool(TRUE)
    /\ reqs[r].reply.d.approved_call.tool_args.f[K_amount].t = "bool"

\* The path is exactly $.<key> with <key> one non-empty top-level field name.
SingleKeyPath(path) == Len(path) = 2 /\ path[1] = "$." /\ path[2] /= ""

\* C21 as claimed: a rule that is evaluated and whose path is not exactly
\* $.<key> (no $. prefix, a nested path, an empty key), or that is evaluated
\* on args that are not an object, gives CONSTRAINT_EVAL_ERROR and the
\* request is denied: the rule never passes and never gives
\* CONSTRAINT_VIOLATION.
C21_UnsupportedPath ==
  \A r \in Runs :
    (Enforced(r) /\ Matches(r) /= {} /\ ControlsPass(r)) =>
      \A j \in 1 .. Len(RulesOf(r)) :
        ( /\ \A i \in 1 .. (j - 1) : i \notin Failing(r)
          /\ ~SingleKeyPath(RulesOf(r)[j].path) \/ ~ToolOf(r).args.obj ) =>
          /\ rule_result(ToolOf(r).args, RulesOf(r)[j]) = "CONSTRAINT_EVAL_ERROR"
          /\ Is(reqs[r].first, "DENY", "CONSTRAINT_EVAL_ERROR")

\* A request checked against the rule with path $.meta.to is ALLOWed
\* because its args have a top-level key "meta.to".
C21_Witness ==
  \E r \in Runs :
    /\ reqs[r].reply.some
    /\ ToolOf(r).name = "deep.tool"
    /\ ~SingleKeyPath(RulesOf(r)[1].path)
    /\ K_meta_to \in DOMAIN ToolOf(r).args.f
    /\ Is(reqs[r].reply.d, "ALLOW", "OK")

\* The decision the pipeline computes for run r's request with submitted_at
\* set to at and nothing else changed.
DecisionWith(r, at) ==
  pipeline([reqs[r].body EXCEPT !.obj.submitted_at = at], reqs[r].received_at).decision

ReorderingsOf(body) ==
  { [body EXCEPT !.obj.tool.args = a, !.obj.context.snapshot = sn] :
      a \in { body.obj.tool.args, Reordered(body.obj.tool.args) },
      sn \in { body.obj.context.snapshot, Reordered(body.obj.context.snapshot) } }

CtxOutcome(body) == ctx_mismatch(model_validate(body.obj))

\* C23 as claimed: reordering the keys of the objects of a request body
\* changes neither the request_hash of the decision nor the outcome of the
\* context integrity check.
C23_KeyOrderIrrelevant ==
  \A r \in Runs :
    (Decided(r) /\ reqs[r].body.json) =>
      \A b \in ReorderingsOf(reqs[r].body) :
        /\ pipeline(b, reqs[r].received_at).decision.request_hash
             = reqs[r].first.request_hash
        /\ CtxOutcome(b) = CtxOutcome(reqs[r].body)

\* C23 as amended: hash_json gives the same digest for all key orderings of
\* a value, so reordering the keys changes neither the outcome of the
\* context check nor the decision_type and reason_code, and it leaves the
\* request_hash unchanged whenever the canonical bytes of the request can be
\* encoded; when they cannot, the decision is INTERNAL_ERROR over the hash
\* of the raw bytes, which follow the order of the keys.
C23_CanonicalKeyOrder ==
  \A r \in Runs :
    (Decided(r) /\ reqs[r].body.json) =>
      \A b \in ReorderingsOf(reqs[r].body) :
        LET d == pipeline(b, reqs[r].received_at).decision
        IN /\ hash_json(b.obj.tool.args) = hash_json(reqs[r].body.obj.tool.args)
           /\ hash_json(b.obj.context.snapshot) = hash_json(reqs[r].body.obj.context.snapshot)
           /\ CtxOutcome(b) = CtxOutcome(reqs[r].body)
           /\ d.decision_type = reqs[r].first.decision_type
           /\ d.reason_code = reqs[r].first.reason_code
           /\ IF Encodable(ToolOf(r).args)
                THEN /\ d.request_hash = reqs[r].first.request_hash
                     /\ d.provenance_id = reqs[r].first.provenance_id
                ELSE /\ Is(d, "DENY", "INTERNAL_ERROR")
                     /\ d.request_hash = sha256_prefixed(RawBytes(b))

C23_Witness ==
  \E r \in Runs :
    /\ reqs[r].reply.some
    /\ reqs[r].body.obj.tool.args = Reordered(PayOk)
    /\ reqs[r].body.obj.tool.args /= PayOk
    /\ reqs[r].body.obj.context.snapshot = Reordered(Snapshot)
    /\ Is(reqs[r].reply.d, "ALLOW", "OK")
    /\ reqs[r].reply.d.request_hash
         = pipeline([reqs[r].body EXCEPT !.obj.tool.args = PayOk,
                                         !.obj.context.snapshot = Snapshot],
                    reqs[r].received_at).decision.request_hash

\* A value of the object is NaN or Infinity.
NonFinite(a) == a.obj /\ \E k \in DOMAIN a.f : a.f[k].t \in { "nan", "inf" }

\* C24: a request carrying a non-finite number in tool.args or in
\* context.snapshot is never hashed successfully (hash_json raises, so the
\* decision is INTERNAL_ERROR over the hash of the raw bytes) and is never
\* ALLOWed.
C24_NonFiniteRejected ==
  \A r \in Runs :
    (/\ Decided(r)
     /\ ValidRequest(r)
     /\ NonFinite(ToolOf(r).args) \/ NonFinite(reqs[r].body.obj.context.snapshot)) =>
      /\ reqs[r].first.decision_type /= "ALLOW"
      /\ Is(reqs[r].first, "DENY", "INTERNAL_ERROR")
      /\ reqs[r].first.request_hash = sha256_prefixed(RawBytes(reqs[r].body))

\* A pay.send whose amount is NaN is replied ALLOW, NaN in the approved call,
\* with a request hash over canonical bytes that spell NaN.
C24_Witness ==
  \E r \in Runs :
    /\ reqs[r].reply.some
    /\ ToolOf(r).name = "pay.send"
    /\ K_amount \in DOMAIN ToolOf(r).args.f
    /\ ToolOf(r).args.f[K_amount] = JNaN
    /\ Is(reqs[r].reply.d, "ALLOW", "OK")
    /\ reqs[r].reply.d.approved_call.tool_args.f[K_amount] = JNaN
    /\ reqs[r].reply.d.request_hash
         = sha256_prefixed(DumpTokens(model_validate(reqs[r].body.obj)))

\* The worker thread of run r is inside append_audit_record.
InFlight(r) == reqs[r].pc \in { "append", "locked" }

\* C25 (cancellation): when the request task is cancelled while its audit
\* append is in flight, the append still ends in one of two ways: the whole
\* record is written at the tail and the lock released, or nothing is
\* written and the lock released.  Every record of the log is whole and
\* chained onto its predecessor, the lock is only ever held by a worker
\* that is still running, and a run waiting to append is never blocked by a
\* run that was cancelled.
C25_Cancellation ==
  /\ [](/\ \A k \in 1 .. Len(audit) :
             /\ audit[k].seq = k - 1
             /\ audit[k].integrity.prev_hash
                  = IF k = 1 THEN ZeroHash ELSE audit[k - 1].integrity.record_hash
             /\ audit[k].integrity.record_hash
                  = sha256_prefixed(RecordTokens(audit[k], audit[k].seq,
                                                 audit[k].integrity.prev_hash))
        /\ lock /= 0 => reqs[lock].pc = "locked"
        /\ \A r \in Runs :
             /\ (reqs[r].cancelled /\ ~InFlight(r)) => lock /= r
             /\ reqs[r].cancelled => ~reqs[r].reply.some
             /\ reqs[r].pc = "cancelled" =>
                  /\ reqs[r].cancelled
                  /\ reqs[r].failed >= 1
                  /\ RecordsOf(r) = {})
  /\ [][\A r \in Runs :
          (reqs[r].cancelled /\ reqs[r].pc = "locked" /\ reqs'[r].pc /= "locked") =>
            /\ lock' = 0
            /\ \/ /\ audit' = Append(audit, Written(reqs[r].out.record, ReadTail))
                  /\ reqs'[r].pc = "appended"
               \/ /\ audit' = audit
                  /\ reqs'[r].pc \in { "append", "raised", "cancelled" }]_vars

\* A run is cancelled in the locked section, its record is in the log all
\* the same, and a request that came later has appended after it and got
\* its reply.
C25_Witness ==
  \E r, q \in Runs :
    /\ r /= q
    /\ reqs[r].cancelled
    /\ reqs[r].pc = "done"
    /\ reqs[r].failed = 0
    /\ ~reqs[r].reply.some
    /\ reqs[q].reply.some
    /\ \E k \in RecordsOf(r), j \in RecordsOf(q) :
         /\ k < j
         /\ audit[j].integrity.prev_hash = audit[k].integrity.record_hash

\* C26 (implicit): every decision returned to a caller is backed by a
\* record that is in the log before the reply is made, with the same
\* decision_type and reason_code; a request none of whose appends succeeds
\* gets no decision.
C26_ReplyBackedByRecord ==
  /\ [](\A r \in Runs :
          /\ reqs[r].reply.some =>
               \E k \in RecordsOf(r) :
                 /\ audit[k].decision_type = reqs[r].reply.d.decision_type
                 /\ audit[k].reason_code = reqs[r].reply.d.reason_code
          /\ RecordsOf(r) = {} => ~reqs[r].reply.some)
  /\ [][\A r \in Runs :
          (~reqs[r].reply.some /\ reqs'[r].reply.some) =>
            /\ audit' = audit
            /\ \E k \in RecordsOf(r) :
                 /\ audit[k].decision_type = reqs'[r].reply.d.decision_type
                 /\ audit[k].reason_code = reqs'[r].reply.d.reason_code]_vars

\* The append of a parse-error decision fails, the handler's append
\* succeeds, and the reply is the INTERNAL_ERROR the log holds.
C26_Witness ==
  \E r \in Runs :
    /\ ~reqs[r].body.json
    /\ reqs[r].failed = 1
    /\ Is(reqs[r].first, "DENY", "REQUEST_PARSE_ERROR")
    /\ reqs[r].reply.some
    /\ Is(reqs[r].reply.d, "DENY", "INTERNAL_ERROR")
    /\ \A k \in RecordsOf(r) : audit[k].reason_code = "INTERNAL_ERROR"
    /\ RecordsOf(r) /= {}

\* C27 (implicit): the record the gate builds for an ALLOW decision has
\* approved_call null: it carries ALLOW and OK but neither the tool name nor
\* the arguments, so the record's approved_call differs from the approved
\* call of the returned decision for every ALLOW, and two ALLOWs of
\* different calls leave records with the same approved_call.
C27_RecordWithoutApprovedCall ==
  /\ \A k \in 1 .. Len(audit) : audit[k].approved_call = NoCall
  /\ \A r \in Runs :
       (Decided(r) /\ reqs[r].first.decision_type = "ALLOW") =>
         /\ reqs[r].first.approved_call.present
         /\ reqs[r].first.approved_call = ApprovedCall(ToolOf(r).name, ToolOf(r).args)
         /\ ~reqs[r].out.handled =>
              /\ reqs[r].out.record.decision_type = "ALLOW"
              /\ reqs[r].out.record.reason_code = "OK"
              /\ reqs[r].out.record.approved_call = NoCall
              /\ reqs[r].out.record.approved_call /= reqs[r].out.decision.approved_call
         /\ \A k \in RecordsOf(r) :
              audit[k].decision_type = "ALLOW" =>
                /\ audit[k].reason_code = "OK"
                /\ audit[k].approved_call /= reqs[r].first.approved_call

\* An ALLOW is returned with its approved call and the log holds its record
\* with approved_call null.
C27_Witness ==
  \E r \in Runs :
    /\ reqs[r].reply.some
    /\ Is(reqs[r].reply.d, "ALLOW", "OK")
    /\ reqs[r].reply.d.approved_call = ApprovedCall("pay.send", PayOk)
    /\ \E k \in RecordsOf(r) :
         /\ audit[k].decision_type = "ALLOW"
         /\ audit[k].approved_call = NoCall

====
